---- MODULE Spec2Model ----
(***************************************************************************)
(* Model of package recio (src/recio.go): length-prefixed record framing   *)
(* over a byte stream.  recordWriter.Write emits a 4-byte little-endian    *)
(* length followed by the payload; recordReader.Read consumes one frame    *)
(* per call, delivering it into the caller's buffer or skipping it when    *)
(* the buffer is too small.                                                *)
(*                                                                         *)
(* Scaling.  A Go byte has 256 values and the prefix is a uint32.  The     *)
(* model keeps the four-digit little-endian prefix but lets a byte have    *)
(* ByteBase values, so the length field wraps at Modulus = ByteBase^4      *)
(* instead of 2^32 and the wrap-around is reachable with short payloads.   *)
(*                                                                         *)
(* Errors are modelled as chains of identities (outermost first), so that  *)
(* err == io.EOF is equality with EOF and errors.Is(err, io.EOF) is Is.    *)
(***************************************************************************)
EXTENDS Integers, Sequences, FiniteSets, TLC

\* ------------------------------------------------------------------ bounds
MaxWrites == 2
MaxLen == 2
ByteBase == 2

\* --------------------------------------------------------------- constants
PrefixLen == 4
DiscardBufLen == 8192

Min(a, b) == IF a <= b THEN a ELSE b

RECURSIVE Pow(_, _)
Pow(b, e) == IF e = 0 THEN 1 ELSE b * Pow(b, e - 1)

Modulus == Pow(ByteBase, PrefixLen)

MaxReads == MaxWrites + 1

\* ------------------------------------------------------------------ errors
Nil == <<>>
EOF == <<"EOF">>
ErrUnexpectedEOF == <<"unexpected EOF">>
EIO == <<"input/output error">>
ErrTargetBufferTooSmall == <<"target buffer is too small to hold message, skipping message">>

\* fmt.Errorf("...: %w", err)
Wrap(msg, err) == <<msg>> \o err

\* errors.Is(err, target)
Is(err, target) == \E i \in 1..Len(err) : SubSeq(err, i, Len(err)) = target

\* ------------------------------------------------------------ byte strings
Fill(n, b) == [i \in 1..n |-> b]
Ramp(n) == [i \in 1..n |-> i % ByteBase]

\* The payloads written: for every length up to MaxLen an all-zero one and one
\* whose bytes differ, and one too long for the length field.
Payloads ==
    {Fill(n, 0) : n \in 0..MaxLen} \cup {Ramp(n) : n \in 0..MaxLen}
        \cup {Fill(Modulus + 1, 0)}

\* uint32(n)
Uint32(n) == n % Modulus

\* Mutant of PutUint32: network byte order.
PutUint32BigEndian(v) ==
    [i \in 1..PrefixLen |-> (v \div Pow(ByteBase, PrefixLen - i)) % ByteBase]

\* binary.LittleEndian.PutUint32, as used by binary.Write for a uint32
PutUint32(v) == [i \in 1..PrefixLen |-> (v \div Pow(ByteBase, i - 1)) % ByteBase]

\* binary.LittleEndian.Uint32, as used by binary.Read for a *uint32
RECURSIVE GetUint32From(_, _)
GetUint32From(bs, i) ==
    IF i > Len(bs) THEN 0 ELSE bs[i] + ByteBase * GetUint32From(bs, i + 1)

GetUint32(bs) == GetUint32From(bs, 1)

\* -------------------------------------------------------------------- sink
\* The io.Writer below the recordWriter.  fault is {} for a sink that accepts
\* everything, or {f} for a sink that fails once, with EIO:
\*   f.late = FALSE  on the write that would take it past f.at bytes, of which
\*                   it keeps the bytes up to f.at (n < len(b), as io.Writer's
\*                   contract asks of a failed write);
\*   f.late = TRUE   on the write that takes it to f.at bytes or further, of
\*                   which it keeps every byte (n = len(b) with an error, which
\*                   the contract allows).
SinkWrite(s, fault, b) ==
    IF \E f \in fault : ~f.late /\ Len(s) + Len(b) > f.at
    THEN LET f == CHOOSE x \in fault : TRUE
             n == f.at - Len(s)
         IN [sink |-> s \o SubSeq(b, 1, n), fault |-> {}, n |-> n, err |-> EIO]
    ELSE IF \E f \in fault : f.late /\ Len(s) + Len(b) >= f.at
    THEN [sink |-> s \o b, fault |-> {}, n |-> Len(b), err |-> EIO]
    ELSE [sink |-> s \o b, fault |-> fault, n |-> Len(b), err |-> Nil]

\* binary.Write(w, binary.LittleEndian, l): one Write of the encoded value,
\* whose count is dropped and whose error is returned.
BinaryWrite(s, fault, l) == SinkWrite(s, fault, PutUint32(l))

\* Mutant of WritePrefix: a length beyond the field's range is written as the
\* field's largest value.
WritePrefixSaturating(s, fault, p) ==
    BinaryWrite(s, fault, Min(Len(p), Modulus - 1))

\* recordWriter.Write, first half: l := uint32(len(p)) and the prefix write.
WritePrefix(s, fault, p) == BinaryWrite(s, fault, Uint32(Len(p)))

\* Mutant of WritePayload: the count includes the prefix bytes.
WritePayloadCountsPrefix(s, fault, p) ==
    LET r == SinkWrite(s, fault, p)
    IN  [sink |-> r.sink, fault |-> r.fault, n |-> r.n + PrefixLen, err |-> r.err,
         calls |-> 2]

\* Mutant of WritePayload: a failed payload write is retried for the rest.
WritePayloadRetries(s, fault, p) ==
    LET r == SinkWrite(s, fault, p)
        q == SinkWrite(r.sink, r.fault, SubSeq(p, r.n + 1, Len(p)))
    IN  IF r.err = Nil
        THEN [sink |-> r.sink, fault |-> r.fault, n |-> r.n, err |-> r.err, calls |-> 2]
        ELSE [sink |-> q.sink, fault |-> q.fault, n |-> r.n + q.n, err |-> q.err,
              calls |-> 3]

\* recordWriter.Write, second half: return w.writer.Write(p), count and error
\* passed through.  calls counts the writes made on the sink.
WritePayload(s, fault, p) ==
    LET r == SinkWrite(s, fault, p)
    IN  [sink |-> r.sink, fault |-> r.fault, n |-> r.n, err |-> r.err, calls |-> 2]

\* Mutant of WriteOp: the error of the prefix write is not checked.
WriteOpIgnoresPrefixError(s, fault, p) ==
    LET r == WritePrefix(s, fault, p)
    IN  WritePayload(r.sink, r.fault, p)

\* recordWriter.Write(p)
WriteOp(s, fault, p) ==
    LET r == WritePrefix(s, fault, p)
    IN  IF r.err # Nil
        THEN [sink |-> r.sink, fault |-> r.fault, n |-> 0, err |-> r.err, calls |-> 1]
        ELSE WritePayload(r.sink, r.fault, p)

\* ------------------------------------------------------------------ source
\* The io.Reader below the recordReader: the bytes s, read from offset at.
\* kind is the implementation the repository's callers put there:
\*   "bytes.Reader"  reports end of data on every Read at the end, also one
\*                   with an empty buffer, and fills the buffer when it can;
\*   "os.File"       returns (0, nil) for an empty buffer, and fills the buffer;
\*   "bufio.Reader"  returns (0, nil) for an empty buffer and may return fewer
\*                   bytes than asked for: at most chunk per call.
\* end is the error the source reports when its data runs out: EOF, or EIO
\* for a source that fails there.
SrcRead(kind, end, s, at, m, chunk) ==
    LET rem == Len(s) - at
    IN  IF rem = 0
        THEN [n |-> 0, data |-> <<>>,
              err |-> IF m = 0 /\ kind # "bytes.Reader" THEN Nil ELSE end]
        ELSE LET n == IF kind = "bufio.Reader" THEN Min(Min(m, rem), chunk)
                      ELSE Min(m, rem)
             IN [n |-> n, data |-> SubSeq(s, at + 1, at + n), err |-> Nil]

\* io.ReadAtLeast(r, buf, min) with len(buf) = min, i.e. io.ReadFull: loops
\* over short reads; EOF after some but not all bytes is ErrUnexpectedEOF.
RECURSIVE ReadAtLeast(_, _, _, _, _, _, _)
ReadAtLeast(kind, end, s, at, got, min, chunk) ==
    IF Len(got) >= min
    THEN [data |-> got, pos |-> at, err |-> Nil]
    ELSE LET r == SrcRead(kind, end, s, at, min - Len(got), chunk)
             all == got \o r.data
         IN  IF r.err = Nil
             THEN ReadAtLeast(kind, end, s, at + r.n, all, min, chunk)
             ELSE [data |-> all, pos |-> at + r.n,
                   err |-> IF Len(all) >= min THEN Nil
                           ELSE IF Len(all) > 0 /\ r.err = EOF THEN ErrUnexpectedEOF
                           ELSE r.err]

\* Mutant of BinaryRead: a prefix cut short is reported as a plain EOF.
BinaryReadPlainEOF(kind, end, s, at, chunk) ==
    LET r == ReadAtLeast(kind, end, s, at, <<>>, PrefixLen, chunk)
    IN  [value |-> IF r.err = Nil THEN GetUint32(r.data) ELSE 0,
         pos |-> r.pos, err |-> IF r.err = ErrUnexpectedEOF THEN EOF ELSE r.err]

\* Mutant of BinaryRead: the error of the prefix read is dropped.
BinaryReadIgnoresError(kind, end, s, at, chunk) ==
    LET r == ReadAtLeast(kind, end, s, at, <<>>, PrefixLen, chunk)
    IN  [value |-> IF r.err = Nil THEN GetUint32(r.data) ELSE 0,
         pos |-> r.pos, err |-> Nil]

\* binary.Read(r, binary.LittleEndian, &length): io.ReadFull of 4 bytes, then
\* the decoding; on error the value is left at zero.
BinaryRead(kind, end, s, at, chunk) ==
    LET r == ReadAtLeast(kind, end, s, at, <<>>, PrefixLen, chunk)
    IN  [value |-> IF r.err = Nil THEN GetUint32(r.data) ELSE 0,
         pos |-> r.pos, err |-> r.err]

\* The loop of io.Copy(io.Discard, io.LimitReader(r, n)): reads of at most
\* DiscardBufLen bytes, never past the limit, until the limit is reached or the
\* source reports an error; EOF ends the copy without error.
RECURSIVE DiscardLoop(_, _, _, _, _, _, _)
DiscardLoop(kind, end, s, at, left, written, chunk) ==
    IF left <= 0
    THEN [written |-> written, pos |-> at, err |-> Nil]
    ELSE LET r == SrcRead(kind, end, s, at, Min(left, DiscardBufLen), chunk)
         IN  IF r.err = Nil
             THEN DiscardLoop(kind, end, s, at + r.n, left - r.n, written + r.n, chunk)
             ELSE [written |-> written + r.n, pos |-> at + r.n,
                   err |-> IF r.err = EOF THEN Nil ELSE r.err]

\* Mutant of CopyN: skips one byte too few.
CopyNOneShort(kind, end, s, at, n, chunk) ==
    LET c == DiscardLoop(kind, end, s, at, n - 1, 0, chunk)
    IN  [written |-> c.written, pos |-> c.pos,
         err |-> IF c.written = n - 1 THEN Nil
                 ELSE IF c.err = Nil THEN EOF ELSE c.err]

\* Mutant of CopyN: io.Copy over io.LimitReader, for which a copy that stops
\* short at the end of the source is no error.
CopyNAsCopy(kind, end, s, at, n, chunk) ==
    LET c == DiscardLoop(kind, end, s, at, n, 0, chunk)
    IN  [written |-> c.written, pos |-> c.pos, err |-> c.err]

\* io.CopyN(io.Discard, r, n): a copy that stops short without an error is EOF.
CopyN(kind, end, s, at, n, chunk) ==
    LET c == DiscardLoop(kind, end, s, at, n, 0, chunk)
    IN  [written |-> c.written, pos |-> c.pos,
         err |-> IF c.written = n THEN Nil
                 ELSE IF c.err = Nil THEN EOF ELSE c.err]

\* Mutant of ReadOp: the payload is read into the whole of p, not p[:length].
ReadOpWholeBuffer(kind, end, s, at, b, chunk) ==
    LET pr == BinaryRead(kind, end, s, at, chunk)
        length == pr.value
    IN  IF pr.err # Nil
        THEN [n |-> 0, err |-> pr.err, pos |-> pr.pos, buf |-> b,
              length |-> 0, path |-> "prefix", calls |-> 0]
        ELSE IF Uint32(Len(b)) < length
        THEN LET c == CopyN(kind, end, s, pr.pos, length, chunk)
             IN  IF c.err # Nil
                 THEN [n |-> 0, err |-> Wrap("error skipping overlong message", c.err),
                       pos |-> c.pos, buf |-> b, length |-> length,
                       path |-> "skipfail", calls |-> 0]
                 ELSE [n |-> 0, err |-> ErrTargetBufferTooSmall,
                       pos |-> c.pos, buf |-> b, length |-> length,
                       path |-> "skip", calls |-> 0]
        ELSE LET r == SrcRead(kind, end, s, pr.pos, Len(b), chunk)
             IN  [n |-> r.n, err |-> r.err, pos |-> pr.pos + r.n,
                  buf |-> r.data \o SubSeq(b, r.n + 1, Len(b)),
                  length |-> length, path |-> "deliver", calls |-> 1]

\* recordReader.Read(p) with p = b, the source at offset at.  path names the
\* return statement taken; calls counts the reads made on the source for the
\* payload (the deliver path).
ReadOp(kind, end, s, at, b, chunk) ==
    LET pr == BinaryRead(kind, end, s, at, chunk)
        length == pr.value
    IN  IF pr.err # Nil
        THEN [n |-> 0, err |-> pr.err, pos |-> pr.pos, buf |-> b,
              length |-> 0, path |-> "prefix", calls |-> 0]
        ELSE IF Uint32(Len(b)) < length
        THEN LET c == CopyN(kind, end, s, pr.pos, length, chunk)
             IN  IF c.err # Nil
                 THEN [n |-> 0, err |-> Wrap("error skipping overlong message", c.err),
                       pos |-> c.pos, buf |-> b, length |-> length,
                       path |-> "skipfail", calls |-> 0]
                 ELSE [n |-> 0, err |-> ErrTargetBufferTooSmall,
                       pos |-> c.pos, buf |-> b, length |-> length,
                       path |-> "skip", calls |-> 0]
        ELSE LET r == SrcRead(kind, end, s, pr.pos, length, chunk)
             IN  [n |-> r.n, err |-> r.err, pos |-> pr.pos + r.n,
                  buf |-> r.data \o SubSeq(b, r.n + 1, Len(b)),
                  length |-> length, path |-> "deliver", calls |-> 1]

\* ------------------------------------------------------------------- state
VARIABLES
    phase,      \* "write": the producer is writing; "read": the consumer reads
    sink,       \* the bytes the sink holds
    sinkFault,  \* {} or {f}: the one-off failure of the sink (see SinkWrite)
    writes,     \* the Write calls made so far: payload, result, sink offsets
    src,        \* the bytes of the source the reader was opened on
    srcKind,    \* the source's implementation (see SrcRead)
    srcEnd,     \* the error the source reports when its data runs out
    buf,        \* the caller's read buffer, reused from call to call
    pos,        \* the source's read offset
    reads       \* the Read calls made so far: offsets, buffers, result

vars == <<phase, sink, sinkFault, writes, src, srcKind, srcEnd, buf, pos, reads>>

\* The sink may fail anywhere in the first frame and in the prefix after it.
FaultPoints == 0..(PrefixLen + MaxLen + 1)

\* It may fail late, all bytes taken, at the end of the first prefix or in the
\* payload after it.
LateFaultPoints == PrefixLen..(PrefixLen + MaxLen)

Faults ==
    {[at |-> k, late |-> FALSE] : k \in FaultPoints}
        \cup {[at |-> k, late |-> TRUE] : k \in LateFaultPoints}

\* Buffer capacities: some too small for the longest payload, one that holds
\* it, and one whose length is a multiple of Modulus.
Caps == (0..MaxLen) \cup {Modulus}

Sources ==
    { <<"bytes.Reader", EOF>>, <<"os.File", EOF>>, <<"os.File", EIO>>,
      <<"bufio.Reader", EOF>> }

\* What a read on the source may return at most: everything asked for, or,
\* for a source with short reads, chunk bytes.
Chunks == IF srcKind = "bufio.Reader" THEN 1..MaxLen ELSE {Len(src) + 1}

Init ==
    /\ phase = "write"
    /\ sink = <<>>
    /\ sinkFault \in {{}} \cup {{f} : f \in Faults}
    /\ writes = <<>>
    /\ src = <<>>
    /\ srcKind = "none"
    /\ srcEnd = Nil
    /\ buf = <<>>
    /\ pos = 0
    /\ reads = <<>>

\* w.Write(p) on the writer made by NewWriter(sink)
Write(p) ==
    /\ phase = "write"
    /\ Len(writes) < MaxWrites
    /\ LET r == WriteOp(sink, sinkFault, p)
       IN  /\ sink' = r.sink
           /\ sinkFault' = r.fault
           /\ writes' = Append(writes,
                  [p |-> p, n |-> r.n, err |-> r.err, calls |-> r.calls,
                   from |-> Len(sink), to |-> Len(r.sink), fault |-> sinkFault])
    /\ UNCHANGED <<phase, src, srcKind, srcEnd, buf, pos, reads>>

\* NewReader(source) over the bytes written, with a read buffer of cap bytes:
\* r := NewReader(bytes.NewReader(writer.Bytes())); readBuffer := make([]byte, cap)
Open(source, cap) ==
    /\ phase = "write"
    /\ phase' = "read"
    /\ src' = sink
    /\ srcKind' = source[1]
    /\ srcEnd' = source[2]
    /\ buf' = Fill(cap, ByteBase - 1)
    /\ pos' = 0
    /\ reads' = <<>>
    /\ UNCHANGED <<sink, sinkFault, writes>>

\* r.Read(readBuffer)
Read(chunk) ==
    /\ phase = "read"
    /\ Len(reads) < MaxReads
    /\ LET r == ReadOp(srcKind, srcEnd, src, pos, buf, chunk)
       IN  /\ pos' = r.pos
           /\ buf' = r.buf
           /\ reads' = Append(reads,
                  [from |-> pos, to |-> r.pos, before |-> buf, after |-> r.buf,
                   n |-> r.n, err |-> r.err, length |-> r.length,
                   path |-> r.path, calls |-> r.calls])
    /\ UNCHANGED <<phase, sink, sinkFault, writes, src, srcKind, srcEnd>>

Next ==
    \/ \E p \in Payloads : Write(p)
    \/ \E source \in Sources, cap \in Caps : Open(source, cap)
    \/ \E chunk \in Chunks : Read(chunk)

Spec == Init /\ [][Next]_vars

\* ------------------------------------------------------- concurrent writers
\* Two goroutines call w.Write on the same recordWriter with no lock around
\* the calls.  A call is two steps, the prefix write and the payload write;
\* each write on the sink is atomic (as for an *os.File), the pair is not.
\* (On a sink without that, such as a bytes.Buffer, overlapping calls are a
\* data race on top of the interleaving modelled here.)
\* Here writes[g] is caller g's call: its payload, where it stands (pc), its
\* result, and the sink's length when it started (from) and when it last
\* wrote (to).
Callers == 1..2

CallOf(p) == [p |-> p, pc |-> "prefix", n |-> 0, err |-> Nil, from |-> 0, to |-> 0]

InitConc ==
    /\ phase = "concurrent"
    /\ sink = <<>>
    /\ sinkFault = {}
    /\ writes \in {<<CallOf(a), CallOf(b)>> : a \in Payloads, b \in Payloads}
    /\ src = <<>>
    /\ srcKind = "none"
    /\ srcEnd = Nil
    /\ buf = <<>>
    /\ pos = 0
    /\ reads = <<>>

\* recordWriter.Write up to the check of the prefix write's error
PrefixStep(g) ==
    /\ phase = "concurrent"
    /\ writes[g].pc = "prefix"
    /\ LET r == WritePrefix(sink, sinkFault, writes[g].p)
       IN  /\ sink' = r.sink
           /\ sinkFault' = r.fault
           /\ writes' = [writes EXCEPT ![g] =
                  [@ EXCEPT !.pc = IF r.err # Nil THEN "done" ELSE "payload",
                            !.err = r.err,
                            !.from = Len(sink),
                            !.to = Len(r.sink)]]
    /\ UNCHANGED <<phase, src, srcKind, srcEnd, buf, pos, reads>>

\* recordWriter.Write from return w.writer.Write(p) on
PayloadStep(g) ==
    /\ phase = "concurrent"
    /\ writes[g].pc = "payload"
    /\ LET r == WritePayload(sink, sinkFault, writes[g].p)
       IN  /\ sink' = r.sink
           /\ sinkFault' = r.fault
           /\ writes' = [writes EXCEPT ![g] =
                  [@ EXCEPT !.pc = "done", !.n = r.n, !.err = r.err,
                            !.to = Len(r.sink)]]
    /\ UNCHANGED <<phase, src, srcKind, srcEnd, buf, pos, reads>>

NextConc ==
    \/ \E g \in Callers : PrefixStep(g)
    \/ \E g \in Callers : PayloadStep(g)

SpecConc == InitConc /\ [][NextConc]_vars

\* ------------------------------------------------- vocabulary of the claims
\* The value of a 4-byte little-endian length prefix, written out.
LE4(bs) ==
    bs[1] + ByteBase * bs[2] + ByteBase * ByteBase * bs[3]
        + ByteBase * ByteBase * ByteBase * bs[4]

\* The length the prefix at offset at of s declares.
Declared(s, at) == LE4(SubSeq(s, at + 1, at + PrefixLen))

\* The Write calls so far all returned without error.
AllWritesOk == \A i \in 1..Len(writes) : writes[i].err = Nil

\* The sink is one frame per Write call, in call order: prefix, then payload.
WireFormat ==
    /\ \A i \in 1..Len(writes) :
         LET w == writes[i]
         IN  /\ w.from = (IF i = 1 THEN 0 ELSE writes[i - 1].to)
             /\ w.to = w.from + PrefixLen + Len(w.p)
             /\ LE4(SubSeq(sink, w.from + 1, w.from + PrefixLen)) = Len(w.p)
             /\ SubSeq(sink, w.from + PrefixLen + 1, w.to) = w.p
    /\ Len(sink) = (IF writes = <<>> THEN 0 ELSE writes[Len(writes)].to)

\* ------------------------------------------------------------------ claims

\* C3 as stated: after Write calls that all returned without error the sink is
\* the concatenation of one frame per call, each the 4-byte little-endian
\* length of the payload followed by the payload, whatever the payload.
C3_WireFormatAnyLength == AllWritesOk => WireFormat

\* C3, amended: the same for payloads whose length the 32-bit length field can
\* hold (below Modulus); the prefix then decodes to exactly the length.
C3_WireFormat ==
    (AllWritesOk /\ \A i \in 1..Len(writes) : Len(writes[i].p) < Modulus) => WireFormat

C3_Witness ==
    /\ Len(writes) = 2
    /\ AllWritesOk
    /\ writes[1].p = Ramp(2)
    /\ writes[2].p = Fill(1, 0)

\* C8: Write returns the count of the payload write, never counting the four
\* prefix bytes: a Write without error returns len(payload) while the sink has
\* grown by len(payload) + 4, and a failed one returns the payload bytes the
\* sink took.
C8_WriteReturnsPayloadCount ==
    \A i \in 1..Len(writes) :
        LET w == writes[i]
        IN  /\ w.err = Nil => (w.n = Len(w.p) /\ w.to - w.from = Len(w.p) + PrefixLen)
            /\ w.calls = 2 => w.n = w.to - w.from - PrefixLen
            /\ w.n <= Len(w.p)

C8_Witness ==
    \E i \in 1..Len(writes) :
        writes[i].err = Nil /\ writes[i].n = 2 /\ writes[i].to - writes[i].from = 6

\* The sink's pending failure strikes a write of m bytes at offset at.
Strikes(fault, at, m) ==
    \E f \in fault : IF f.late THEN at + m >= f.at ELSE at + m > f.at

\* C9: when the sink fails during the prefix write, Write returns (0, the
\* sink's error) and makes no payload write: the sink has taken at most the
\* four prefix bytes and no payload byte.
C9_PrefixFailure ==
    \A i \in 1..Len(writes) :
        LET w == writes[i]
        IN  Strikes(w.fault, w.from, PrefixLen) =>
                /\ w.n = 0
                /\ w.err = EIO
                /\ w.calls = 1
                /\ w.to - w.from <= PrefixLen
                /\ \A j \in 1..(w.to - w.from) :
                       sink[w.from + j] = (Len(w.p) \div Pow(ByteBase, j - 1)) % ByteBase

C9_Witness ==
    \E i \in 1..Len(writes) :
        /\ Strikes(writes[i].fault, writes[i].from, PrefixLen)
        /\ Len(writes[i].p) = 2
        /\ writes[i].to - writes[i].from = 2

\* The bytes left in the source at offset at.
Rem(at) == Len(src) - at

\* s without the k bytes that follow offset at.
Removed(s, at, k) == SubSeq(s, 1, at) \o SubSeq(s, at + k + 1, Len(s))

\* The reader's side of a round trip in the setting of the repository's tests:
\* every Write succeeded, the source fills the buffer it is given and ends
\* with EOF, and every payload fits the non-empty read buffer.
CleanRoundTrip ==
    /\ phase = "read"
    /\ AllWritesOk
    /\ srcKind \in {"bytes.Reader", "os.File"}
    /\ srcEnd = EOF
    /\ Len(buf) >= 1
    /\ Len(buf) < Modulus
    /\ \A i \in 1..Len(writes) : Len(writes[i].p) <= Len(buf)

\* C1 as stated (for the sources of its tests): payloads of length 0..C written
\* in order are read back in order, the i-th Read returning no error, the count
\* len(Pi) and the bytes of Pi.
C1_RoundTrip ==
    CleanRoundTrip =>
        \A i \in 1..Min(Len(reads), Len(writes)) :
            /\ reads[i].err = Nil
            /\ reads[i].n = Len(writes[i].p)
            /\ SubSeq(reads[i].after, 1, reads[i].n) = writes[i].p

\* C2: a whole frame longer than the buffer is skipped: Read returns
\* (0, ErrTargetBufferTooSmall), consumes exactly 4 + length bytes, leaves the
\* buffer alone, and the next Read behaves as it would on the stream without
\* the skipped frame; a whole next frame that fits is delivered.
C2_SkipRecovers ==
    \A i \in 1..Len(reads) :
        LET r == reads[i]
            L == Declared(src, r.from)
        IN  (Rem(r.from) >= PrefixLen /\ L > Len(r.before)
                 /\ Rem(r.from) >= PrefixLen + L) =>
                /\ r.n = 0
                /\ r.err = ErrTargetBufferTooSmall
                /\ r.to = r.from + PrefixLen + L
                /\ r.after = r.before
                /\ i < Len(reads) =>
                     LET nx == reads[i + 1]
                         L2 == Declared(src, r.to)
                     IN  /\ nx.from = r.to
                         /\ \E chunk \in Chunks :
                              LET h == ReadOp(srcKind, srcEnd,
                                              Removed(src, r.from, PrefixLen + L),
                                              r.from, r.after, chunk)
                              IN  /\ nx.n = h.n
                                  /\ nx.err = h.err
                                  /\ nx.after = h.buf
                                  /\ nx.to = h.pos + PrefixLen + L
                         /\ (/\ srcKind # "bufio.Reader"
                             /\ Rem(r.to) >= PrefixLen
                             /\ L2 >= 1
                             /\ L2 <= Len(r.before)
                             /\ Rem(r.to) >= PrefixLen + L2) =>
                                /\ nx.err = Nil
                                /\ nx.n = L2
                                /\ SubSeq(nx.after, 1, L2)
                                     = SubSeq(src, r.to + PrefixLen + 1, r.to + PrefixLen + L2)

C2_Witness ==
    /\ Len(reads) = 2
    /\ Len(writes) = 2
    /\ writes[1].p = Ramp(2)
    /\ writes[2].p = Fill(1, 0)
    /\ reads[1].err = ErrTargetBufferTooSmall
    /\ reads[2].err = Nil
    /\ reads[2].n = 1
    /\ buf = Fill(1, 0)

\* C4 as stated (for the sources of its tests): on a stream of n complete
\* frames that fit the buffer the first n Reads return no error and the
\* (n+1)-th returns (0, io.EOF), so EOF is never reported early.
C4_EOFAfterLastFrame ==
    (CleanRoundTrip /\ \A i \in 1..Len(writes) : Len(writes[i].p) < Modulus) =>
        \A i \in 1..Len(reads) :
            /\ i <= Len(writes) => reads[i].err = Nil
            /\ i = Len(writes) + 1 => (reads[i].n = 0 /\ reads[i].err = EOF)

\* C5 as stated, in its weaker half: a Read that finds a complete prefix but
\* fewer payload bytes than it declares before the source ends returns an
\* error, and that error is not io.EOF.  (The claim also asks that the error
\* does not wrap io.EOF.)
C5_TruncatedPayloadIsMalformed ==
    \A i \in 1..Len(reads) :
        LET r == reads[i]
        IN  (srcEnd = EOF /\ Rem(r.from) >= PrefixLen
                 /\ Rem(r.from) - PrefixLen < Declared(src, r.from)) =>
                (r.err # Nil /\ r.err # EOF)

\* C6: a Read that finds 1, 2 or 3 bytes before the source ends returns
\* (0, io.ErrUnexpectedEOF), which is not io.EOF, and leaves the buffer alone.
C6_TruncatedPrefix ==
    \A i \in 1..Len(reads) :
        LET r == reads[i]
        IN  (srcEnd = EOF /\ Rem(r.from) \in 1..(PrefixLen - 1)) =>
                /\ r.n = 0
                /\ r.err = ErrUnexpectedEOF
                /\ ~Is(r.err, EOF)
                /\ r.after = r.before

C6_Witness ==
    /\ Len(reads) = 2
    /\ reads[1].err = Nil
    /\ Rem(reads[2].from) = 3
    /\ reads[2].err = ErrUnexpectedEOF

\* C7 as stated: an empty payload is written as the four bytes 00 00 00 00,
\* and a Read with a non-empty buffer that finds such a frame returns (0, nil)
\* and stops right after it, also when it is the last frame of the source.
C7_ZeroLengthPayload ==
    /\ \A i \in 1..Len(writes) :
         (writes[i].p = <<>> /\ writes[i].err = Nil) =>
             SubSeq(sink, writes[i].from + 1, writes[i].to) = Fill(PrefixLen, 0)
    /\ \A i \in 1..Len(reads) :
         LET r == reads[i]
         IN  (Rem(r.from) >= PrefixLen /\ Declared(src, r.from) = 0
                  /\ Len(r.before) >= 1) =>
                 (r.n = 0 /\ r.err = Nil /\ r.to = r.from + PrefixLen)

\* C10: when the frame is longer than the buffer and the source ends or fails
\* before the whole payload is skipped, Read returns 0 and an error that wraps
\* the source's error and is not ErrTargetBufferTooSmall; the buffer is left
\* alone.  ErrTargetBufferTooSmall comes only with the whole payload skipped.
C10_DiscardFailure ==
    \A i \in 1..Len(reads) :
        LET r == reads[i]
            L == Declared(src, r.from)
        IN  /\ (Rem(r.from) >= PrefixLen /\ L > Len(r.before)
                    /\ Rem(r.from) - PrefixLen < L) =>
                   /\ r.n = 0
                   /\ r.err # Nil
                   /\ ~Is(r.err, ErrTargetBufferTooSmall)
                   /\ Is(r.err, srcEnd)
                   /\ r.after = r.before
            /\ Is(r.err, ErrTargetBufferTooSmall) =>
                   /\ Rem(r.from) >= PrefixLen + L
                   /\ r.to = r.from + PrefixLen + L

C10_Witness ==
    \E i \in 1..Len(reads) :
        /\ Rem(reads[i].from) = PrefixLen + 1
        /\ Declared(src, reads[i].from) = 2
        /\ Len(reads[i].before) = 1
        /\ reads[i].err = Wrap("error skipping overlong message", EOF)

\* C11 as stated: after every Read that returns no error or
\* ErrTargetBufferTooSmall on a frame the source holds whole, the source is
\* exactly 4 + length bytes past the offset where the call started, also for
\* a source whose reads may return fewer bytes than asked for.
C11_FrameBoundary ==
    \A i \in 1..Len(reads) :
        LET r == reads[i]
        IN  (/\ r.err \in {Nil, ErrTargetBufferTooSmall}
             /\ Rem(r.from) >= PrefixLen
             /\ Rem(r.from) >= PrefixLen + Declared(src, r.from)) =>
                r.to = r.from + PrefixLen + Declared(src, r.from)

\* C12 as stated, where the source has payload bytes to deliver: a frame whose
\* declared length is at most the buffer's capacity is delivered by exactly one
\* read on the source, of at most length bytes, whose count Read returns
\* without error.
C12_SingleReadDelivery ==
    \A i \in 1..Len(reads) :
        LET r == reads[i]
            L == Declared(src, r.from)
        IN  (/\ Rem(r.from) > PrefixLen
             /\ L <= Len(r.before)) =>
                /\ r.path = "deliver"
                /\ r.calls = 1
                /\ r.err = Nil
                /\ r.n <= L
                /\ r.to = r.from + PrefixLen + r.n
                /\ SubSeq(r.after, 1, r.n)
                     = SubSeq(src, r.from + PrefixLen + 1, r.from + PrefixLen + r.n)

\* C13 as stated: Read skips the frame, and returns ErrTargetBufferTooSmall
\* when the skip succeeds, exactly when the declared length exceeds the true
\* capacity of the buffer, and delivers exactly when it does not.
C13_DeliverOrDiscard ==
    \A i \in 1..Len(reads) :
        LET r == reads[i]
            L == Declared(src, r.from)
            C == Len(r.before)
        IN  Rem(r.from) >= PrefixLen =>
                /\ r.path \in {"skip", "skipfail"} <=> L > C
                /\ r.path = "deliver" <=> L <= C
                /\ r.err = ErrTargetBufferTooSmall => L > C

\* The frame Write emits for p: the length modulo the field's range as four
\* little-endian bytes, then p.
EmittedFrame(p) ==
    [i \in 1..PrefixLen |-> ((Len(p) % Modulus) \div Pow(ByteBase, i - 1)) % ByteBase]
        \o p

\* Both concurrent calls have returned.
BothDone == \A g \in Callers : writes[g].pc = "done"

\* The concurrent calls did not overlap: between the start and the end of each
\* the sink took that call's bytes only.
Serialized ==
    \A g \in Callers : writes[g].to - writes[g].from = PrefixLen + Len(writes[g].p)

\* The two sinks serialized calls can leave.
SerialSinks ==
    { EmittedFrame(writes[1].p) \o EmittedFrame(writes[2].p),
      EmittedFrame(writes[2].p) \o EmittedFrame(writes[1].p) }

\* C14: two Write calls on one sink that do not overlap leave frame(A) frame(B)
\* or frame(B) frame(A) in the sink; calls that overlap need not: the witness
\* is the run prefix A, prefix B, payload A, payload B, whose sink is neither.
C14_SerializedWritesFrame ==
    (phase = "concurrent" /\ BothDone /\ Serialized) => sink \in SerialSinks

C14_Witness ==
    /\ phase = "concurrent"
    /\ BothDone
    /\ writes[1].p = Ramp(2)
    /\ writes[2].p = Fill(1, 0)
    /\ ~Serialized
    /\ sink \notin SerialSinks
    /\ sink = PutUint32(2) \o PutUint32(1) \o Ramp(2) \o Fill(1, 0)

\* The prefix write of Write call w went through and the sink's failure struck
\* its payload write.
PayloadFailure(w) ==
    /\ ~Strikes(w.fault, w.from, PrefixLen)
    /\ Strikes(w.fault, w.from + PrefixLen, Len(w.p))

\* The payload bytes the failing sink takes of Write call w.
Accepted(w) ==
    LET f == CHOOSE x \in w.fault : TRUE
    IN  IF f.late THEN Len(w.p) ELSE f.at - w.from - PrefixLen

\* What Write does when the payload write fails after k bytes: it returns
\* (k, the sink's error) after two writes on the sink, which holds the whole
\* prefix and the first k payload bytes.
PayloadFailureResult(w) ==
    /\ w.n = Accepted(w)
    /\ w.err = EIO
    /\ w.calls = 2
    /\ w.to = w.from + PrefixLen + w.n
    /\ SubSeq(sink, w.from + 1, w.to) = SubSeq(EmittedFrame(w.p), 1, PrefixLen + w.n)

\* The frame of Write call w is not well-formed: its prefix does not declare
\* the number of payload bytes that follow it.
BrokenFrame(w) == Declared(sink, w.from) # w.to - w.from - PrefixLen

\* C15 as stated: a payload write that fails after k bytes, 0 <= k <=
\* len(payload), makes Write return (k, error) and leaves prefix and k bytes,
\* so that the frame is broken and no Read starts at the boundary of a frame
\* written after it.
C15_PayloadFailureAnyCount ==
    \A i \in 1..Len(writes) :
        PayloadFailure(writes[i]) =>
            /\ PayloadFailureResult(writes[i])
            /\ BrokenFrame(writes[i])
            /\ \A j \in (i + 1)..Len(writes) : \A x \in 1..Len(reads) :
                   reads[x].from # writes[j].from

\* C15, amended: the same result for every k; and when k < len(payload) <
\* Modulus, the prefix declares more bytes than follow it, and a Read that
\* starts at that frame on a source that fills its reads ends beyond the
\* boundary of the frame written next.
C15_PayloadFailure ==
    \A i \in 1..Len(writes) :
        LET w == writes[i]
        IN  PayloadFailure(w) =>
                /\ PayloadFailureResult(w)
                /\ (w.n < Len(w.p) /\ Len(w.p) < Modulus) =>
                       /\ BrokenFrame(w)
                       /\ Declared(sink, w.from) = Len(w.p)
                       /\ (i < Len(writes) /\ srcKind \in {"bytes.Reader", "os.File"}) =>
                              \A x \in 1..Len(reads) :
                                  reads[x].from = w.from => reads[x].to > writes[i + 1].from

C15_Witness ==
    /\ Len(writes) = 2
    /\ Len(reads) >= 1
    /\ PayloadFailure(writes[1])
    /\ writes[1].p = Ramp(2)
    /\ writes[1].n = 1
    /\ writes[2].err = Nil
    /\ srcKind = "os.File"
    /\ reads[1].to > writes[2].from

\* The sink's failure strikes neither write of Write call w.
NoFailure(w) == ~Strikes(w.fault, w.from, PrefixLen + Len(w.p))

\* C16: Write does not reject a payload longer than the length field's largest
\* value: it emits the prefix len(payload) mod Modulus and the entire payload,
\* so the prefix differs from the number of payload bytes that follow it.
C16_LengthOverflow ==
    \A i \in 1..Len(writes) :
        LET w == writes[i]
        IN  (Len(w.p) > Modulus - 1 /\ NoFailure(w)) =>
                /\ w.err = Nil
                /\ w.n = Len(w.p)
                /\ w.to = w.from + PrefixLen + Len(w.p)
                /\ SubSeq(sink, w.from + 1, w.from + PrefixLen)
                       = PutUint32(Len(w.p) % Modulus)
                /\ SubSeq(sink, w.from + PrefixLen + 1, w.to) = w.p
                /\ Declared(sink, w.from) = Len(w.p) % Modulus
                /\ Declared(sink, w.from) # w.to - w.from - PrefixLen

C16_Witness ==
    /\ Len(writes) = 2
    /\ writes[1].err = Nil
    /\ Len(writes[1].p) < Modulus
    /\ Len(writes[2].p) = Modulus + 1
    /\ writes[2].err = Nil
    /\ writes[2].n = Modulus + 1
    /\ Declared(sink, writes[2].from) = 1

\* Read call r returned no error or ErrTargetBufferTooSmall: the results after
\* which a consumer goes on reading.
GoesOn(r) == r.err = Nil \/ r.err = ErrTargetBufferTooSmall

\* The most Read calls a consumer of the source can go on after.
MaxGoOn == Len(src) \div PrefixLen

\* C17: on a finite source every Read call returns, having moved the source's
\* offset forward within the source; a call that returns no error or
\* ErrTargetBufferTooSmall has consumed at least PrefixLen bytes; so at most
\* floor(Len(src) / PrefixLen) calls return that way, and a consumer that has
\* made one call more has received another error.
C17_EventualExhaustion ==
    phase = "read" =>
        /\ \A x \in 1..Len(reads) :
               /\ reads[x].from = (IF x = 1 THEN 0 ELSE reads[x - 1].to)
               /\ reads[x].from <= reads[x].to
               /\ reads[x].to <= Len(src)
               /\ GoesOn(reads[x]) => reads[x].to - reads[x].from >= PrefixLen
        /\ Cardinality({x \in 1..Len(reads) : GoesOn(reads[x])}) <= MaxGoOn
        /\ Len(reads) > MaxGoOn =>
               \E x \in 1..(MaxGoOn + 1) : ~GoesOn(reads[x])

C17_Witness ==
    /\ phase = "read"
    /\ srcEnd = EOF
    /\ Len(src) = 2 * PrefixLen + 1
    /\ Len(reads) = MaxGoOn + 1
    /\ reads[1].err = ErrTargetBufferTooSmall
    /\ reads[2].err = Nil
    /\ reads[3].err = EOF

\* Read call r left the caller's buffer as it was and returned the count 0.
Untouched(r) == r.after = r.before /\ r.n = 0

\* C18: Read never writes the caller's buffer at an index at or beyond the
\* declared length of the frame it processes, and its count never exceeds
\* min(length, C); when it returns ErrTargetBufferTooSmall, a prefix-read
\* error or a discard error, the buffer is unchanged and the count is 0.
C18_CallerBufferFrame ==
    \A x \in 1..Len(reads) :
        LET r == reads[x]
        IN  /\ Len(r.after) = Len(r.before)
            /\ \A i \in 1..Len(r.before) : i > r.length => r.after[i] = r.before[i]
            /\ r.n <= Min(r.length, Len(r.before))
            /\ r.err = ErrTargetBufferTooSmall => Untouched(r)
            /\ r.path \in {"prefix", "skipfail", "skip"} => Untouched(r)
            /\ Is(r.err, ErrTargetBufferTooSmall) <=> r.path = "skip"

C18_Witness ==
    /\ Len(reads) = 2
    /\ reads[1].path = "deliver"
    /\ reads[1].length = 1
    /\ Len(reads[1].before) = 2
    /\ reads[1].n = 1
    /\ reads[1].after[1] # reads[1].before[1]
    /\ reads[1].after[2] = reads[1].before[2]
    /\ reads[1].to < Len(src)
    /\ reads[2].path = "skip"
    /\ reads[2].after = reads[1].after

====
